---- MODULE Spec2Model ----
(***************************************************************************)
(* The GPU training-op functors of                                         *)
(* tensorflow/core/kernels/training_ops_gpu.cu.cc as a state machine.      *)
(*                                                                         *)
(* Element values are exact rationals <<n, d>> (d > 0, lowest terms)       *)
(* extended with the IEEE non-finite values +inf = <<1,0>>,                *)
(* -inf = <<-1,0>> and NaN = <<0,0>>.  Rounding of +,-,*,/ and signed      *)
(* zeros are not modelled; sqrt is exact on squares of rationals and       *)
(* truncated otherwise.  Array positions are 0-based indices i as in the   *)
(* source, stored at position i+1 of a TLA+ sequence.                      *)
(***************************************************************************)
EXTENDS Integers, Sequences, FiniteSets, TLC

(***************************************************************************)
(* Bounds of the model.                                                    *)
(***************************************************************************)
\* Largest grad.dimension(0) of a call
MaxN == 2
\* Largest block_count of a launch
MaxBlocks == 2
\* Largest magnitude of the real and imaginary part of a complex argument
MaxPart == 3
\* Largest number of successive calls on the same state
MaxSteps == 3

(***************************************************************************)
(* Scalar arithmetic of the element type T.                                *)
(***************************************************************************)
RECURSIVE Gcd(_, _)
Gcd(a, b) == IF b = 0 THEN a ELSE Gcd(b, a % b)

AbsInt(n) == IF n < 0 THEN -n ELSE n

SgnInt(n) == IF n > 0 THEN 1 ELSE IF n < 0 THEN -1 ELSE 0

Norm(n, d) ==
  IF d = 0 THEN <<SgnInt(n), 0>>
  ELSE LET g == Gcd(AbsInt(n), AbsInt(d))
           s == IF d < 0 THEN -1 ELSE 1
       IN <<(s * n) \div g, (s * d) \div g>>

Rat(n, d) == Norm(n, d)

T(n) == <<n, 1>>

NaN == <<0, 0>>

PInf == <<1, 0>>

NInf == <<-1, 0>>

IsNaN(x) == x = NaN

IsFinite(x) == x[2] # 0

Neg(x) == <<-x[1], x[2]>>

Add(x, y) ==
  IF IsNaN(x) \/ IsNaN(y) THEN NaN
  ELSE IF ~IsFinite(x) /\ ~IsFinite(y) THEN (IF x = y THEN x ELSE NaN)
  ELSE IF ~IsFinite(x) THEN x
  ELSE IF ~IsFinite(y) THEN y
  ELSE Norm(x[1] * y[2] + y[1] * x[2], x[2] * y[2])

Sub(x, y) == Add(x, Neg(y))

Mul(x, y) == Norm(x[1] * y[1], x[2] * y[2])

Recip(x) == IF x[1] < 0 THEN <<-x[2], -x[1]>> ELSE <<x[2], x[1]>>

Div(x, y) == Mul(x, Recip(y))

Less(x, y) ==
  IF IsNaN(x) \/ IsNaN(y) THEN FALSE
  ELSE IF ~IsFinite(x) /\ ~IsFinite(y) THEN x[1] < y[1]
  ELSE x[1] * y[2] < y[1] * x[2]

Max(x, y) == IF Less(x, y) THEN y ELSE x

Abs(x) == <<AbsInt(x[1]), x[2]>>

Sign(x) == IF IsNaN(x) THEN NaN ELSE T(SgnInt(x[1]))

Square(x) == Mul(x, x)

\* The largest k in lo..hi with k * k <= n, by bisection
RECURSIVE ISqrtFrom(_, _, _)
ISqrtFrom(n, lo, hi) ==
  IF lo >= hi THEN lo
  ELSE LET mid == (lo + hi + 1) \div 2
       IN IF mid * mid <= n THEN ISqrtFrom(n, mid, hi) ELSE ISqrtFrom(n, lo, mid - 1)

ISqrt(n) == ISqrtFrom(n, 0, IF n < 46340 THEN n ELSE 46340)

Sqrt(x) ==
  IF IsNaN(x) \/ x[1] < 0 THEN NaN
  ELSE IF ~IsFinite(x) THEN PInf
  ELSE Norm(ISqrt(x[1] * x[2]), x[2])

Rsqrt(x) == Recip(Sqrt(x))

Exp(x) ==
  IF IsNaN(x) THEN NaN
  ELSE IF x = PInf THEN PInf
  ELSE IF x = NInf THEN T(0)
  ELSE Add(Add(T(1), x),
           Add(Div(Square(x), T(2)), Div(Mul(x, Square(x)), T(6))))

(***************************************************************************)
(* Device memory.  mem maps a buffer name to its contents; a Flat tensor   *)
(* of N elements is a sequence of length N, a Scalar tensor a sequence of  *)
(* length 1.  A request r binds the functor's parameter names to buffers.  *)
(***************************************************************************)
VARIABLES
  backend,   \* "ROCM" (TENSORFLOW_USE_ROCM) or "CUDA" (GOOGLE_CUDA)
  req,       \* call -> [family, flag, bind]: the arguments of operator()
  mem,       \* buffer -> contents
  pre,       \* mem as it was when the calls were issued
  status,    \* call -> "start" | "running" | "done" | "fatal"
  pc,        \* call -> whole-array statements of the functor executed so far
  cfg,       \* call -> the GpuLaunchConfig of its kernel launch
  thr,       \* call -> thread -> [i, s, update]: loop index, statement, local
  launched,  \* call -> kernel launches requested through GpuLaunchKernel
  run,       \* 1, or 2 when the caller repeats the call from the same pre-state
  first,     \* run 1's outcome [status, mem], kept by the caller for run 2
  elem,      \* element type T of a std::complex<T>: "float" or "double"
  cx,        \* a std::complex<T> argument, <<re, im>>
  fn,        \* the primitive applied to cx: "none", "impl_sqrt" or "impl_rsqrt"
  root,      \* its result, <<re, im>> (T root[2] in the source)
  build,     \* [nvcc, windows]: TENSORFLOW_USE_NVCC and PLATFORM_WINDOWS defined or not
  ety,       \* element type of a functor specialisation: "half" .. "complex128"
  used,      \* the square-root primitives a call of that specialisation evaluates
  len,       \* grad.dimension(0) as <<high, low>> limbs to base 2^16
  work,      \* int32 data_dim computed from it, in a sequence; <<>> before it is computed
  applied    \* call -> index -> times the kernel's loop body has completed for it

\* The state of the primitives' argument and result
cplx == <<elem, cx, fn, root>>

\* The state of a specialisation of a functor
inst == <<build, ety, used>>

\* The state of a work count
dims == <<len, work>>

vars == <<backend, req, mem, pre, status, pc, cfg, thr, launched, run, first, cplx,
          inst, dims, applied>>

Flats == {"var", "accum", "accum_update", "m", "v", "vhat", "ms", "mg", "mom", "grad"}

Scalars == {"lr", "rho", "epsilon", "momentum", "beta1", "beta2", "beta1_power",
            "beta2_power", "alpha", "sign_decay", "beta", "logbase"}

\* grad.dimension(0)
Dim(mm, r) == Len(mm[r.bind["grad"]])

\* x[i] of a Flat parameter x, i 0-based
At(mm, r, x, i) == mm[r.bind[x]][i + 1]

\* p[0] of a Scalar parameter p: what x.reshape(single).broadcast(bcast)
\* yields at every index, and what a kernel reads as p[0]
Bcast(mm, r, p) == mm[r.bind[p]][1]

\* x[i] = val
Put(mm, r, x, i, val) == [mm EXCEPT ![r.bind[x]][i + 1] = val]

\* The indices 0..N-1 of a Flat parameter
Indices(mm, r) == 0..(Dim(mm, r) - 1)

\* x.device(d) = vals: coefficient i of the right-hand side, evaluated on the
\* memory as it is before the assignment, is stored at x[i]
Assign(mm, r, x, vals) ==
  [mm EXCEPT ![r.bind[x]] = [k \in 1..Len(mm[r.bind[x]]) |-> vals[k - 1]]]

(***************************************************************************)
(* impl_sqrt / impl_rsqrt on a real element type defer to sqrt / rsqrt.    *)
(***************************************************************************)
impl_sqrt(a) == Sqrt(a)

impl_rsqrt(a) == Rsqrt(a)

\* a >= b
Geq(a, b) == ~IsNaN(a) /\ ~IsNaN(b) /\ ~Less(a, b)

\* const T root2 = 0.7071067811865475
root2 == Rat(7071, 10000)

\* impl_sqrt(std::complex<T> x) with the principal branch forgotten: the
\* imaginary part is left non-negative
impl_sqrt_complexNoBranch(z) ==
  LET re == z[1]
      im == z[2]
      mod_x == Sqrt(Add(Mul(re, re), Mul(im, im)))
  IN <<Mul(Sqrt(Add(mod_x, re)), root2),
       Mul(Sqrt(Sub(mod_x, re)), root2)>>

\* impl_sqrt(std::complex<T> x)
impl_sqrt_complex(z) ==
  LET re == z[1]
      im == z[2]
      mod_x == Sqrt(Add(Mul(re, re), Mul(im, im)))
  IN <<Mul(Sqrt(Add(mod_x, re)), root2),
       Mul(Mul(Sqrt(Sub(mod_x, re)), root2), IF Geq(im, T(0)) THEN T(1) ELSE T(-1))>>

\* rsqrt_helper(T x)
rsqrt_helper(a) ==
  Add(Add(Mul(Rat(1, 2), a), Mul(Mul(Rat(1, 8), a), a)),
      Mul(Mul(Mul(Rat(1, 16), a), a), a))

\* impl_rsqrt(std::complex<T> x); ty is T
impl_rsqrt_complex(z, ty) ==
  LET re == z[1]
      im == z[2]
      r == Rsqrt(Add(Mul(re, re), Mul(im, im)))
      h == rsqrt_helper(Mul(Mul(Mul(im, im), r), r))
  IN <<Mul(Sqrt(Mul(r, IF ty = "float" /\ Less(Mul(re, r), Rat(-49, 50))
                       THEN h
                       ELSE Add(T(1), Mul(re, r)))),
           root2),
       Mul(Mul(Sqrt(Mul(r, IF ty = "float" /\ Less(Rat(49, 50), Mul(re, r))
                           THEN h
                           ELSE Sub(T(1), Mul(re, r)))),
               root2),
           IF Geq(im, T(0)) THEN T(-1) ELSE T(1))>>

(***************************************************************************)
(* The ROCm kernels.  Each operator is the body of GPU_1D_KERNEL_LOOP for  *)
(* index i: statement s of the body applied to memory mm with the thread's *)
(* local `update` (`denom` in ApplyCenteredRMSPropKernel) u.  The result   *)
(* is the new memory and the new local.                                    *)
(***************************************************************************)
\* ApplyAdagradKernel without the test of update_slots
ApplyAdagradKernelBodyAlwaysAccumulates(s, mm, r, i, u) ==
  LET g == At(mm, r, "grad", i) IN
  CASE s = 1 ->
         [mem |-> Put(mm, r, "accum", i, Add(At(mm, r, "accum", i), Mul(g, g))),
          update |-> u]
    [] s = 2 ->
         [mem |-> Put(mm, r, "var", i,
                      Sub(At(mm, r, "var", i),
                          Mul(Mul(Bcast(mm, r, "lr"), g),
                              impl_rsqrt(At(mm, r, "accum", i))))),
          update |-> u]

ApplyAdagradKernelBody(s, mm, r, i, u) ==
  LET g == At(mm, r, "grad", i) IN
  CASE s = 1 ->
         [mem |-> IF r.flag
                  THEN Put(mm, r, "accum", i, Add(At(mm, r, "accum", i), Mul(g, g)))
                  ELSE mm,
          update |-> u]
    [] s = 2 ->
         [mem |-> Put(mm, r, "var", i,
                      Sub(At(mm, r, "var", i),
                          Mul(Mul(Bcast(mm, r, "lr"), g),
                              impl_rsqrt(At(mm, r, "accum", i))))),
          update |-> u]

\* ApplyAdagradV2Kernel with epsilon added under the square root
ApplyAdagradV2KernelBodyEpsUnderRoot(s, mm, r, i, u) ==
  LET g == At(mm, r, "grad", i) IN
  CASE s = 1 ->
         [mem |-> IF r.flag
                  THEN Put(mm, r, "accum", i, Add(At(mm, r, "accum", i), Mul(g, g)))
                  ELSE mm,
          update |-> u]
    [] s = 2 ->
         [mem |-> mm,
          update |-> Div(g, impl_sqrt(Add(At(mm, r, "accum", i),
                                          Bcast(mm, r, "epsilon"))))]
    [] s = 3 ->
         [mem |-> Put(mm, r, "var", i,
                      Sub(At(mm, r, "var", i), Mul(Bcast(mm, r, "lr"), u))),
          update |-> u]

ApplyAdagradV2KernelBody(s, mm, r, i, u) ==
  LET g == At(mm, r, "grad", i) IN
  CASE s = 1 ->
         [mem |-> IF r.flag
                  THEN Put(mm, r, "accum", i, Add(At(mm, r, "accum", i), Mul(g, g)))
                  ELSE mm,
          update |-> u]
    [] s = 2 ->
         [mem |-> mm,
          update |-> Div(g, Add(impl_sqrt(At(mm, r, "accum", i)),
                                Bcast(mm, r, "epsilon")))]
    [] s = 3 ->
         [mem |-> Put(mm, r, "var", i,
                      Sub(At(mm, r, "var", i), Mul(Bcast(mm, r, "lr"), u))),
          update |-> u]

ApplyAdadeltaKernelBody(s, mm, r, i, u) ==
  LET g == At(mm, r, "grad", i)
      rho == Bcast(mm, r, "rho")
      eps == Bcast(mm, r, "epsilon")
      lr == Bcast(mm, r, "lr")
  IN
  CASE s = 1 ->
         [mem |-> Put(mm, r, "accum", i,
                      Add(Mul(At(mm, r, "accum", i), rho),
                          Mul(Mul(g, g), Sub(T(1), rho)))),
          update |-> u]
    [] s = 2 ->
         [mem |-> mm,
          update |-> Mul(Mul(impl_sqrt(Add(At(mm, r, "accum_update", i), eps)), g),
                         impl_rsqrt(Add(At(mm, r, "accum", i), eps)))]
    [] s = 3 ->
         [mem |-> Put(mm, r, "var", i, Sub(At(mm, r, "var", i), Mul(u, lr))),
          update |-> u]
    [] s = 4 ->
         [mem |-> Put(mm, r, "accum_update", i,
                      Add(Mul(At(mm, r, "accum_update", i), rho),
                          Mul(Mul(u, u), Sub(T(1), rho)))),
          update |-> u]

\* ApplyRMSPropKernel taking mom[0] instead of mom[i] in its last statement
ApplyRMSPropKernelBodyReadsMom0(s, mm, r, i, u) ==
  LET g == At(mm, r, "grad", i)
      rho == Bcast(mm, r, "rho")
      eps == Bcast(mm, r, "epsilon")
      lr == Bcast(mm, r, "lr")
      momentum == Bcast(mm, r, "momentum")
  IN
  CASE s = 1 ->
         [mem |-> Put(mm, r, "ms", i,
                      Add(At(mm, r, "ms", i),
                          Mul(Sub(T(1), rho), Sub(Mul(g, g), At(mm, r, "ms", i))))),
          update |-> u]
    [] s = 2 ->
         [mem |-> Put(mm, r, "mom", i,
                      Add(Mul(At(mm, r, "mom", i), momentum),
                          Mul(Mul(lr, g), impl_rsqrt(Add(eps, At(mm, r, "ms", i)))))),
          update |-> u]
    [] s = 3 ->
         [mem |-> Put(mm, r, "var", i,
                      Sub(At(mm, r, "var", i), At(mm, r, "mom", 0))),
          update |-> u]

ApplyRMSPropKernelBody(s, mm, r, i, u) ==
  LET g == At(mm, r, "grad", i)
      rho == Bcast(mm, r, "rho")
      eps == Bcast(mm, r, "epsilon")
      lr == Bcast(mm, r, "lr")
      momentum == Bcast(mm, r, "momentum")
  IN
  CASE s = 1 ->
         [mem |-> Put(mm, r, "ms", i,
                      Add(At(mm, r, "ms", i),
                          Mul(Sub(T(1), rho), Sub(Mul(g, g), At(mm, r, "ms", i))))),
          update |-> u]
    [] s = 2 ->
         [mem |-> Put(mm, r, "mom", i,
                      Add(Mul(At(mm, r, "mom", i), momentum),
                          Mul(Mul(lr, g), impl_rsqrt(Add(eps, At(mm, r, "ms", i)))))),
          update |-> u]
    [] s = 3 ->
         [mem |-> Put(mm, r, "var", i,
                      Sub(At(mm, r, "var", i), At(mm, r, "mom", i))),
          update |-> u]

ApplyCenteredRMSPropKernelBody(s, mm, r, i, u) ==
  LET g == At(mm, r, "grad", i)
      rho == Bcast(mm, r, "rho")
      eps == Bcast(mm, r, "epsilon")
      lr == Bcast(mm, r, "lr")
      momentum == Bcast(mm, r, "momentum")
      one_minus_rho == Sub(T(1), rho)
  IN
  CASE s = 1 ->
         [mem |-> Put(mm, r, "ms", i,
                      Add(At(mm, r, "ms", i),
                          Mul(one_minus_rho, Sub(Mul(g, g), At(mm, r, "ms", i))))),
          update |-> u]
    [] s = 2 ->
         [mem |-> Put(mm, r, "mg", i,
                      Add(At(mm, r, "mg", i),
                          Mul(one_minus_rho, Sub(g, At(mm, r, "mg", i))))),
          update |-> u]
    [] s = 3 ->
         [mem |-> mm,
          update |-> Add(Sub(At(mm, r, "ms", i),
                             Mul(At(mm, r, "mg", i), At(mm, r, "mg", i))),
                         eps)]
    [] s = 4 ->
         [mem |-> Put(mm, r, "mom", i,
                      Add(Mul(At(mm, r, "mom", i), momentum),
                          Mul(Mul(lr, g), impl_rsqrt(u)))),
          update |-> u]
    [] s = 5 ->
         [mem |-> Put(mm, r, "var", i,
                      Sub(At(mm, r, "var", i), At(mm, r, "mom", i))),
          update |-> u]

(***************************************************************************)
(* The functors' whole-array (Eigen expression) statements.  Each operator *)
(* gives the memory after statement s of operator(), every statement being *)
(* one assignment x.device(d) = ... over all coefficients.  An expression  *)
(* bound with `auto` (update, denom, sign_gm, ...) is evaluated where it   *)
(* is used.                                                                *)
(***************************************************************************)
ApplyGradientDescentVec(s, mm, r) ==
  Assign(mm, r, "var",
         [i \in Indices(mm, r) |->
            Sub(At(mm, r, "var", i),
                Mul(Bcast(mm, r, "lr"), At(mm, r, "grad", i)))])

\* ApplyAdagrad's statements with lr * grad formed in place, in grad
ApplyAdagradVecScalesGradInPlace(s, mm, r) ==
  CASE s = 1 ->
         IF r.flag
         THEN Assign(mm, r, "accum",
                     [i \in Indices(mm, r) |->
                        Add(At(mm, r, "accum", i), Square(At(mm, r, "grad", i)))])
         ELSE mm
    [] s = 2 ->
         LET scaled == Assign(mm, r, "grad",
                              [i \in Indices(mm, r) |->
                                 Mul(Bcast(mm, r, "lr"), At(mm, r, "grad", i))])
         IN Assign(scaled, r, "var",
                   [i \in Indices(mm, r) |->
                      Sub(At(mm, r, "var", i),
                          Mul(At(scaled, r, "grad", i), Rsqrt(At(mm, r, "accum", i))))])

ApplyAdagradVec(s, mm, r) ==
  CASE s = 1 ->
         IF r.flag
         THEN Assign(mm, r, "accum",
                     [i \in Indices(mm, r) |->
                        Add(At(mm, r, "accum", i), Square(At(mm, r, "grad", i)))])
         ELSE mm
    [] s = 2 ->
         Assign(mm, r, "var",
                [i \in Indices(mm, r) |->
                   Sub(At(mm, r, "var", i),
                       Mul(Mul(Bcast(mm, r, "lr"), At(mm, r, "grad", i)),
                           Rsqrt(At(mm, r, "accum", i))))])

ApplyAdagradV2Vec(s, mm, r) ==
  CASE s = 1 ->
         IF r.flag
         THEN Assign(mm, r, "accum",
                     [i \in Indices(mm, r) |->
                        Add(At(mm, r, "accum", i), Square(At(mm, r, "grad", i)))])
         ELSE mm
    [] s = 2 ->
         Assign(mm, r, "var",
                [i \in Indices(mm, r) |->
                   Sub(At(mm, r, "var", i),
                       Mul(Bcast(mm, r, "lr"),
                           Div(At(mm, r, "grad", i),
                               Add(Sqrt(At(mm, r, "accum", i)),
                                   Bcast(mm, r, "epsilon")))))])

\* const auto update of ApplyAdadelta, coefficient i
AdadeltaUpdate(mm, r, i) ==
  Mul(Mul(Sqrt(Add(At(mm, r, "accum_update", i), Bcast(mm, r, "epsilon"))),
          Rsqrt(Add(At(mm, r, "accum", i), Bcast(mm, r, "epsilon")))),
      At(mm, r, "grad", i))

\* ApplyAdadelta's statements with accum_update assigned before var, so that
\* var's update is formed from the new accum_update
ApplyAdadeltaVecUpdatesSlotFirst(s, mm, r) ==
  CASE s = 1 ->
         Assign(mm, r, "accum",
                [i \in Indices(mm, r) |->
                   Add(Mul(At(mm, r, "accum", i), Bcast(mm, r, "rho")),
                       Mul(Square(At(mm, r, "grad", i)),
                           Sub(T(1), Bcast(mm, r, "rho"))))])
    [] s = 2 ->
         Assign(mm, r, "accum_update",
                [i \in Indices(mm, r) |->
                   Add(Mul(At(mm, r, "accum_update", i), Bcast(mm, r, "rho")),
                       Mul(Square(AdadeltaUpdate(mm, r, i)),
                           Sub(T(1), Bcast(mm, r, "rho"))))])
    [] s = 3 ->
         Assign(mm, r, "var",
                [i \in Indices(mm, r) |->
                   Sub(At(mm, r, "var", i),
                       Mul(AdadeltaUpdate(mm, r, i), Bcast(mm, r, "lr")))])

ApplyAdadeltaVec(s, mm, r) ==
  CASE s = 1 ->
         Assign(mm, r, "accum",
                [i \in Indices(mm, r) |->
                   Add(Mul(At(mm, r, "accum", i), Bcast(mm, r, "rho")),
                       Mul(Square(At(mm, r, "grad", i)),
                           Sub(T(1), Bcast(mm, r, "rho"))))])
    [] s = 2 ->
         Assign(mm, r, "var",
                [i \in Indices(mm, r) |->
                   Sub(At(mm, r, "var", i),
                       Mul(AdadeltaUpdate(mm, r, i), Bcast(mm, r, "lr")))])
    [] s = 3 ->
         Assign(mm, r, "accum_update",
                [i \in Indices(mm, r) |->
                   Add(Mul(At(mm, r, "accum_update", i), Bcast(mm, r, "rho")),
                       Mul(Square(AdadeltaUpdate(mm, r, i)),
                           Sub(T(1), Bcast(mm, r, "rho"))))])

\* ApplyMomentum with accum and grad exchanged in its first assignment
ApplyMomentumVecWritesGrad(s, mm, r) ==
  CASE s = 1 ->
         Assign(mm, r, "grad",
                [i \in Indices(mm, r) |->
                   Add(Mul(At(mm, r, "grad", i), Bcast(mm, r, "momentum")),
                       At(mm, r, "accum", i))])
    [] s = 2 ->
         Assign(mm, r, "var",
                [i \in Indices(mm, r) |->
                   Sub(At(mm, r, "var", i),
                       Mul(Bcast(mm, r, "lr"), At(mm, r, "accum", i)))])

ApplyMomentumVec(s, mm, r) ==
  CASE s = 1 ->
         Assign(mm, r, "accum",
                [i \in Indices(mm, r) |->
                   Add(Mul(At(mm, r, "accum", i), Bcast(mm, r, "momentum")),
                       At(mm, r, "grad", i))])
    [] s = 2 ->
         IF r.flag
         THEN Assign(mm, r, "var",
                     [i \in Indices(mm, r) |->
                        Sub(At(mm, r, "var", i),
                            Add(Mul(At(mm, r, "grad", i), Bcast(mm, r, "lr")),
                                Mul(Mul(At(mm, r, "accum", i), Bcast(mm, r, "momentum")),
                                    Bcast(mm, r, "lr"))))])
         ELSE Assign(mm, r, "var",
                     [i \in Indices(mm, r) |->
                        Sub(At(mm, r, "var", i),
                            Mul(Bcast(mm, r, "lr"), At(mm, r, "accum", i)))])

\* ApplyKerasMomentum adding grad * lr in the Nesterov update of var
ApplyKerasMomentumVecAddsGrad(s, mm, r) ==
  CASE s = 1 ->
         Assign(mm, r, "accum",
                [i \in Indices(mm, r) |->
                   Sub(Mul(At(mm, r, "accum", i), Bcast(mm, r, "momentum")),
                       Mul(At(mm, r, "grad", i), Bcast(mm, r, "lr")))])
    [] s = 2 ->
         IF r.flag
         THEN Assign(mm, r, "var",
                     [i \in Indices(mm, r) |->
                        Add(At(mm, r, "var", i),
                            Add(Mul(At(mm, r, "accum", i), Bcast(mm, r, "momentum")),
                                Mul(At(mm, r, "grad", i), Bcast(mm, r, "lr"))))])
         ELSE Assign(mm, r, "var",
                     [i \in Indices(mm, r) |->
                        Add(At(mm, r, "var", i), At(mm, r, "accum", i))])

ApplyKerasMomentumVec(s, mm, r) ==
  CASE s = 1 ->
         Assign(mm, r, "accum",
                [i \in Indices(mm, r) |->
                   Sub(Mul(At(mm, r, "accum", i), Bcast(mm, r, "momentum")),
                       Mul(At(mm, r, "grad", i), Bcast(mm, r, "lr")))])
    [] s = 2 ->
         IF r.flag
         THEN Assign(mm, r, "var",
                     [i \in Indices(mm, r) |->
                        Add(At(mm, r, "var", i),
                            Sub(Mul(At(mm, r, "accum", i), Bcast(mm, r, "momentum")),
                                Mul(At(mm, r, "grad", i), Bcast(mm, r, "lr"))))])
         ELSE Assign(mm, r, "var",
                     [i \in Indices(mm, r) |->
                        Add(At(mm, r, "var", i), At(mm, r, "accum", i))])

\* m.device(d) = m + (beta1.constant(one) - beta1).broadcast * (grad - m)
AdamM(mm, r) ==
  Assign(mm, r, "m",
         [i \in Indices(mm, r) |->
            Add(At(mm, r, "m", i),
                Mul(Sub(T(1), Bcast(mm, r, "beta1")),
                    Sub(At(mm, r, "grad", i), At(mm, r, "m", i))))])

\* v.device(d) = v + (beta2.constant(one) - beta2).broadcast * (grad.square() - v)
AdamV(mm, r) ==
  Assign(mm, r, "v",
         [i \in Indices(mm, r) |->
            Add(At(mm, r, "v", i),
                Mul(Sub(T(1), Bcast(mm, r, "beta2")),
                    Sub(Square(At(mm, r, "grad", i)), At(mm, r, "v", i))))])

\* (lr * (beta2_power.constant(one) - beta2_power).sqrt() /
\*  (beta1_power.constant(one) - beta1_power)).reshape(single).broadcast(bcast)
AdamAlpha(mm, r) ==
  Div(Mul(Bcast(mm, r, "lr"), Sqrt(Sub(T(1), Bcast(mm, r, "beta2_power")))),
      Sub(T(1), Bcast(mm, r, "beta1_power")))

ApplyAdamVec(s, mm, r) ==
  CASE s = 1 -> AdamM(mm, r)
    [] s = 2 -> AdamV(mm, r)
    [] s = 3 ->
         IF r.flag
         THEN Assign(mm, r, "var",
                     [i \in Indices(mm, r) |->
                        Sub(At(mm, r, "var", i),
                            Div(Mul(AdamAlpha(mm, r),
                                    Add(Mul(At(mm, r, "m", i), Bcast(mm, r, "beta1")),
                                        Mul(Sub(T(1), Bcast(mm, r, "beta1")),
                                            At(mm, r, "grad", i)))),
                                Add(Bcast(mm, r, "epsilon"), Sqrt(At(mm, r, "v", i)))))])
         ELSE Assign(mm, r, "var",
                     [i \in Indices(mm, r) |->
                        Sub(At(mm, r, "var", i),
                            Div(Mul(AdamAlpha(mm, r), At(mm, r, "m", i)),
                                Add(Bcast(mm, r, "epsilon"), Sqrt(At(mm, r, "v", i)))))])

\* ApplyAdamWithAmsgrad dividing by epsilon + v.sqrt(), as ApplyAdam does
ApplyAdamWithAmsgradVecDividesByV(s, mm, r) ==
  CASE s = 1 -> AdamM(mm, r)
    [] s = 2 -> AdamV(mm, r)
    [] s = 3 ->
         Assign(mm, r, "vhat",
                [i \in Indices(mm, r) |->
                   Max(At(mm, r, "vhat", i), At(mm, r, "v", i))])
    [] s = 4 ->
         Assign(mm, r, "var",
                [i \in Indices(mm, r) |->
                   Sub(At(mm, r, "var", i),
                       Div(Mul(AdamAlpha(mm, r), At(mm, r, "m", i)),
                           Add(Bcast(mm, r, "epsilon"), Sqrt(At(mm, r, "v", i)))))])

ApplyAdamWithAmsgradVec(s, mm, r) ==
  CASE s = 1 -> AdamM(mm, r)
    [] s = 2 -> AdamV(mm, r)
    [] s = 3 ->
         Assign(mm, r, "vhat",
                [i \in Indices(mm, r) |->
                   Max(At(mm, r, "vhat", i), At(mm, r, "v", i))])
    [] s = 4 ->
         Assign(mm, r, "var",
                [i \in Indices(mm, r) |->
                   Sub(At(mm, r, "var", i),
                       Div(Mul(AdamAlpha(mm, r), At(mm, r, "m", i)),
                           Add(Bcast(mm, r, "epsilon"), Sqrt(At(mm, r, "vhat", i)))))])

\* Coefficient i of a Scalar parameter p used in a 1-d expression without
\* .reshape(single).broadcast(bcast): the evaluator reads p.data()[i].  Index 0
\* is the scalar; any other index lies behind its storage, and junk[i][p] is
\* what that read returns.
Coeff(mm, r, p, i, junk) == IF i = 0 THEN mm[r.bind[p]][1] ELSE junk[i][p]

ApplyAdaMaxVec(s, mm, r, junk) ==
  CASE s = 1 -> AdamM(mm, r)
    [] s = 2 ->
         Assign(mm, r, "v",
                [i \in Indices(mm, r) |->
                   Max(Mul(Bcast(mm, r, "beta2"), At(mm, r, "v", i)),
                       Abs(At(mm, r, "grad", i)))])
    [] s = 3 ->
         Assign(mm, r, "var",
                [i \in Indices(mm, r) |->
                   Sub(At(mm, r, "var", i),
                       Mul(Div(Coeff(mm, r, "lr", i, junk),
                               Sub(T(1), Bcast(mm, r, "beta1_power"))),
                           Div(At(mm, r, "m", i),
                               Add(At(mm, r, "v", i),
                                   Coeff(mm, r, "epsilon", i, junk)))))])

ApplyRMSPropVec(s, mm, r) ==
  CASE s = 1 ->
         Assign(mm, r, "ms",
                [i \in Indices(mm, r) |->
                   Add(At(mm, r, "ms", i),
                       Mul(Sub(T(1), Bcast(mm, r, "rho")),
                           Sub(Square(At(mm, r, "grad", i)), At(mm, r, "ms", i))))])
    [] s = 2 ->
         Assign(mm, r, "mom",
                [i \in Indices(mm, r) |->
                   Add(Mul(At(mm, r, "mom", i), Bcast(mm, r, "momentum")),
                       Div(Mul(Bcast(mm, r, "lr"), At(mm, r, "grad", i)),
                           Sqrt(Add(Bcast(mm, r, "epsilon"), At(mm, r, "ms", i)))))])
    [] s = 3 ->
         Assign(mm, r, "var",
                [i \in Indices(mm, r) |->
                   Sub(At(mm, r, "var", i), At(mm, r, "mom", i))])

ApplyCenteredRMSPropVec(s, mm, r) ==
  CASE s = 1 ->
         Assign(mm, r, "ms",
                [i \in Indices(mm, r) |->
                   Add(At(mm, r, "ms", i),
                       Mul(Sub(T(1), Bcast(mm, r, "rho")),
                           Sub(Square(At(mm, r, "grad", i)), At(mm, r, "ms", i))))])
    [] s = 2 ->
         Assign(mm, r, "mg",
                [i \in Indices(mm, r) |->
                   Add(At(mm, r, "mg", i),
                       Mul(Sub(T(1), Bcast(mm, r, "rho")),
                           Sub(At(mm, r, "grad", i), At(mm, r, "mg", i))))])
    [] s = 3 ->
         Assign(mm, r, "mom",
                [i \in Indices(mm, r) |->
                   Add(Mul(At(mm, r, "mom", i), Bcast(mm, r, "momentum")),
                       Div(Mul(Bcast(mm, r, "lr"), At(mm, r, "grad", i)),
                           Sqrt(Add(Sub(At(mm, r, "ms", i), Square(At(mm, r, "mg", i))),
                                    Bcast(mm, r, "epsilon")))))])
    [] s = 4 ->
         Assign(mm, r, "var",
                [i \in Indices(mm, r) |->
                   Sub(At(mm, r, "var", i), At(mm, r, "mom", i))])

\* m.device(d) = m * beta_bcast + grad * one_minus_beta
SignM(mm, r) ==
  Assign(mm, r, "m",
         [i \in Indices(mm, r) |->
            Add(Mul(At(mm, r, "m", i), Bcast(mm, r, "beta")),
                Mul(At(mm, r, "grad", i), Sub(T(1), Bcast(mm, r, "beta"))))])

\* auto sign_gm = grad.sign() * m.sign(), coefficient i
SignGm(mm, r, i) == Mul(Sign(At(mm, r, "grad", i)), Sign(At(mm, r, "m", i)))

ApplyAddSignVec(s, mm, r) ==
  CASE s = 1 -> SignM(mm, r)
    [] s = 2 ->
         Assign(mm, r, "var",
                [i \in Indices(mm, r) |->
                   Sub(At(mm, r, "var", i),
                       Mul(Mul(Bcast(mm, r, "lr"),
                               Add(Bcast(mm, r, "alpha"),
                                   Mul(Bcast(mm, r, "sign_decay"), SignGm(mm, r, i)))),
                           At(mm, r, "grad", i)))])

ApplyPowerSignVec(s, mm, r) ==
  CASE s = 1 -> SignM(mm, r)
    [] s = 2 ->
         Assign(mm, r, "var",
                [i \in Indices(mm, r) |->
                   Sub(At(mm, r, "var", i),
                       Mul(Mul(Bcast(mm, r, "lr"),
                               Exp(Mul(Mul(Bcast(mm, r, "logbase"),
                                           Bcast(mm, r, "sign_decay")),
                                       SignGm(mm, r, i)))),
                           At(mm, r, "grad", i)))])

(***************************************************************************)
(* The update families and what each functor's operator() takes.           *)
(***************************************************************************)
Families == {"GradientDescent", "Adagrad", "AdagradV2", "Adadelta", "Momentum",
             "KerasMomentum", "Adam", "AdamWithAmsgrad", "AdaMax", "RMSProp",
             "CenteredRMSProp", "AddSign", "PowerSign"}

\* The parameters of operator(): Flat / ConstFlat / ConstScalar arguments
Params(fam) ==
  CASE fam = "GradientDescent" -> {"var", "lr", "grad"}
    [] fam = "Adagrad" -> {"var", "accum", "lr", "grad"}
    [] fam = "AdagradV2" -> {"var", "accum", "lr", "epsilon", "grad"}
    [] fam = "Adadelta" -> {"var", "accum", "accum_update", "lr", "rho", "epsilon", "grad"}
    [] fam = "Momentum" -> {"var", "accum", "lr", "grad", "momentum"}
    [] fam = "KerasMomentum" -> {"var", "accum", "lr", "grad", "momentum"}
    [] fam = "Adam" -> {"var", "m", "v", "beta1_power", "beta2_power", "lr", "beta1",
                        "beta2", "epsilon", "grad"}
    [] fam = "AdamWithAmsgrad" -> {"var", "m", "v", "vhat", "beta1_power", "beta2_power",
                                   "lr", "beta1", "beta2", "epsilon", "grad"}
    [] fam = "AdaMax" -> {"var", "m", "v", "beta1_power", "lr", "beta1", "beta2",
                          "epsilon", "grad"}
    [] fam = "RMSProp" -> {"var", "ms", "mom", "lr", "rho", "momentum", "epsilon", "grad"}
    [] fam = "CenteredRMSProp" -> {"var", "mg", "ms", "mom", "lr", "rho", "momentum",
                                   "epsilon", "grad"}
    [] fam = "AddSign" -> {"var", "m", "lr", "alpha", "sign_decay", "beta", "grad"}
    [] fam = "PowerSign" -> {"var", "m", "lr", "logbase", "sign_decay", "beta", "grad"}

\* The parameters passed as mutable Flat (the others are ConstFlat / ConstScalar)
MutableParams(fam) == (Params(fam) \cap Flats) \ {"grad"}

\* The functors whose operator() takes a bool (update_slots / use_nesterov)
HasFlag(fam) == fam \in {"Adagrad", "AdagradV2", "Momentum", "KerasMomentum", "Adam"}

\* The functors with an #if TENSORFLOW_USE_ROCM kernel launch
HasKernel(fam) == fam \in {"Adagrad", "AdagradV2", "Adadelta", "RMSProp", "CenteredRMSProp"}

\* Statements in the body of each kernel's GPU_1D_KERNEL_LOOP
KernelLen(fam) ==
  CASE fam = "Adagrad" -> 2
    [] fam = "AdagradV2" -> 3
    [] fam = "Adadelta" -> 4
    [] fam = "RMSProp" -> 3
    [] fam = "CenteredRMSProp" -> 5

\* Whole-array statements of each functor's Eigen path
VecLen(fam) ==
  CASE fam = "GradientDescent" -> 1
    [] fam \in {"Adagrad", "AdagradV2", "Momentum", "KerasMomentum", "AddSign",
                "PowerSign"} -> 2
    [] fam \in {"Adadelta", "Adam", "AdaMax", "RMSProp"} -> 3
    [] fam \in {"AdamWithAmsgrad", "CenteredRMSProp"} -> 4

KernelBody(fam, s, mm, r, i, u) ==
  CASE fam = "Adagrad" -> ApplyAdagradKernelBody(s, mm, r, i, u)
    [] fam = "AdagradV2" -> ApplyAdagradV2KernelBody(s, mm, r, i, u)
    [] fam = "Adadelta" -> ApplyAdadeltaKernelBody(s, mm, r, i, u)
    [] fam = "RMSProp" -> ApplyRMSPropKernelBody(s, mm, r, i, u)
    [] fam = "CenteredRMSProp" -> ApplyCenteredRMSPropKernelBody(s, mm, r, i, u)

VecStmt(fam, s, mm, r, junk) ==
  CASE fam = "GradientDescent" -> ApplyGradientDescentVec(s, mm, r)
    [] fam = "Adagrad" -> ApplyAdagradVec(s, mm, r)
    [] fam = "AdagradV2" -> ApplyAdagradV2Vec(s, mm, r)
    [] fam = "Adadelta" -> ApplyAdadeltaVec(s, mm, r)
    [] fam = "Momentum" -> ApplyMomentumVec(s, mm, r)
    [] fam = "KerasMomentum" -> ApplyKerasMomentumVec(s, mm, r)
    [] fam = "Adam" -> ApplyAdamVec(s, mm, r)
    [] fam = "AdamWithAmsgrad" -> ApplyAdamWithAmsgradVec(s, mm, r)
    [] fam = "AdaMax" -> ApplyAdaMaxVec(s, mm, r, junk)
    [] fam = "RMSProp" -> ApplyRMSPropVec(s, mm, r)
    [] fam = "CenteredRMSProp" -> ApplyCenteredRMSPropVec(s, mm, r)
    [] fam = "AddSign" -> ApplyAddSignVec(s, mm, r)
    [] fam = "PowerSign" -> ApplyPowerSignVec(s, mm, r)

(***************************************************************************)
(* Launching a kernel (ROCm path of a functor).                            *)
(***************************************************************************)
\* Device-dependent launch shapes GetGpuLaunchConfig may return
BlockCounts == 1..MaxBlocks

ThreadsPerBlock == {1, 2}

\* A thread whose grid-stride loop has ended
Finished == [i |-> -1, s |-> 0, update |-> T(0)]

\* A thread entering the loop body for index i
AtIndex(i) == [i |-> i, s |-> 1, update |-> T(0)]

\* GpuLaunchConfig of GetGpuLaunchConfig(data_dim, d)
GetGpuLaunchConfig(data_dim, bc, tpb) ==
  [virtual_thread_count |-> data_dim, block_count |-> bc, thread_per_block |-> tpb]

\* GetGpuLaunchConfig accepts a work count only if it is positive (an invalid
\* launch configuration, N = 0 for one, is fatal for the call)
ValidWorkCount(data_dim) == data_dim > 0

NoConfig == [virtual_thread_count |-> 0, block_count |-> 0, thread_per_block |-> 0]

\* Threads of a launch: blockIdx.x * blockDim.x + threadIdx.x
Threads(config) == 0..(config.block_count * config.thread_per_block - 1)

\* GPU_1D_KERNEL_LOOP(i, count): thread t starts at i = t, and steps by
\* gridDim.x * blockDim.x while i < count
LoopStart(config, t) ==
  IF t < config.virtual_thread_count THEN AtIndex(t) ELSE Finished

LoopNext(config, i) ==
  LET j == i + config.block_count * config.thread_per_block
  IN IF j < config.virtual_thread_count THEN AtIndex(j) ELSE Finished

\* int32 data_dim = grad.dimension(0);
\* auto config = GetGpuLaunchConfig(data_dim, d);
\* TF_CHECK_OK(GpuLaunchKernel(Kernel, config.block_count,
\*                             config.thread_per_block, 0, d.stream(), config, ...));
LaunchKernel(c) ==
  /\ status[c] = "start"
  /\ LET data_dim == Dim(mem, req[c]) IN
     IF ~ValidWorkCount(data_dim)
     THEN /\ status' = [status EXCEPT ![c] = "fatal"]
          /\ UNCHANGED <<cfg, thr, launched>>
     ELSE \E bc \in BlockCounts, tpb \in ThreadsPerBlock, ok \in BOOLEAN :
            LET config == GetGpuLaunchConfig(data_dim, bc, tpb) IN
            /\ launched' = [launched EXCEPT ![c] = @ + 1]
            /\ IF ok
               THEN /\ cfg' = [cfg EXCEPT ![c] = config]
                    /\ thr' = [thr EXCEPT ![c] = [t \in Threads(config) |-> LoopStart(config, t)]]
                    /\ status' = [status EXCEPT ![c] = "running"]
               ELSE /\ status' = [status EXCEPT ![c] = "fatal"]
                    /\ UNCHANGED <<cfg, thr>>
  /\ UNCHANGED <<backend, req, mem, pre, pc, run, first, cplx, inst, dims, applied>>

\* One thread of call c's kernel executes the next statement of the loop body
KernelStep(c, t, fam) ==
  /\ status[c] = "running"
  /\ backend = "ROCM"
  /\ req[c].family = fam
  /\ t \in DOMAIN thr[c]
  /\ thr[c][t].i >= 0
  /\ LET th == thr[c][t]
         res == KernelBody(fam, th.s, mem, req[c], th.i, th.update)
         after == IF th.s = KernelLen(fam)
                  THEN LoopNext(cfg[c], th.i)
                  ELSE [i |-> th.i, s |-> th.s + 1, update |-> res.update]
         thrc == [thr[c] EXCEPT ![t] = after]
     IN /\ mem' = res.mem
        /\ thr' = [thr EXCEPT ![c] = thrc]
        /\ applied' = [applied EXCEPT ![c] =
                         IF th.s # KernelLen(fam) THEN @
                         ELSE IF th.i \in DOMAIN @ THEN [@ EXCEPT ![th.i] = @ + 1]
                         ELSE @ @@ (th.i :> 1)]
        /\ status' = [status EXCEPT ![c] =
                        IF \A u \in DOMAIN thrc : thrc[u].i < 0 THEN "done" ELSE "running"]
  /\ UNCHANGED <<backend, req, pre, pc, cfg, launched, run, first, cplx, inst, dims>>

\* Call c executes the next whole-array statement of its functor
VecStep(c, fam, junk) ==
  /\ status[c] \in {"start", "running"}
  /\ req[c].family = fam
  /\ pc[c] < VecLen(fam)
  /\ mem' = VecStmt(fam, pc[c] + 1, mem, req[c], junk)
  /\ pc' = [pc EXCEPT ![c] = @ + 1]
  /\ status' = [status EXCEPT ![c] = IF pc[c] + 1 = VecLen(fam) THEN "done" ELSE "running"]
  /\ UNCHANGED <<backend, req, pre, cfg, thr, launched, run, first, cplx, inst, dims, applied>>

\* Nothing is read behind a Scalar's storage
NoJunk == <<>>

(***************************************************************************)
(* The functors: one action per operator(), taking its next step.          *)
(***************************************************************************)
ApplyGradientDescent(c) ==
  /\ req[c].family = "GradientDescent"
  /\ VecStep(c, "GradientDescent", NoJunk)

ApplyAdagrad(c) ==
  /\ req[c].family = "Adagrad"
  /\ IF backend = "ROCM" THEN LaunchKernel(c) ELSE VecStep(c, "Adagrad", NoJunk)

ApplyAdagradV2(c) ==
  /\ req[c].family = "AdagradV2"
  /\ IF backend = "ROCM" THEN LaunchKernel(c) ELSE VecStep(c, "AdagradV2", NoJunk)

ApplyAdadelta(c) ==
  /\ req[c].family = "Adadelta"
  /\ IF backend = "ROCM" THEN LaunchKernel(c) ELSE VecStep(c, "Adadelta", NoJunk)

ApplyMomentum(c) ==
  /\ req[c].family = "Momentum"
  /\ VecStep(c, "Momentum", NoJunk)

ApplyKerasMomentum(c) ==
  /\ req[c].family = "KerasMomentum"
  /\ VecStep(c, "KerasMomentum", NoJunk)

ApplyAdam(c) ==
  /\ req[c].family = "Adam"
  /\ VecStep(c, "Adam", NoJunk)

ApplyAdamWithAmsgrad(c) ==
  /\ req[c].family = "AdamWithAmsgrad"
  /\ VecStep(c, "AdamWithAmsgrad", NoJunk)

\* What a read behind the storage of lr or epsilon may return
Garbage == {T(0), T(3)}

\* lr and epsilon enter the last statement without a broadcast, so coefficient
\* i > 0 reads lr.data()[i] and epsilon.data()[i], behind the scalars
ApplyAdaMax(c) ==
  /\ req[c].family = "AdaMax"
  /\ \E junk \in [1..(Dim(mem, req[c]) - 1) -> [{"lr", "epsilon"} -> Garbage]] :
       VecStep(c, "AdaMax", junk)

ApplyRMSProp(c) ==
  /\ req[c].family = "RMSProp"
  /\ IF backend = "ROCM" THEN LaunchKernel(c) ELSE VecStep(c, "RMSProp", NoJunk)

ApplyCenteredRMSProp(c) ==
  /\ req[c].family = "CenteredRMSProp"
  /\ IF backend = "ROCM" THEN LaunchKernel(c) ELSE VecStep(c, "CenteredRMSProp", NoJunk)

ApplyAddSign(c) ==
  /\ req[c].family = "AddSign"
  /\ VecStep(c, "AddSign", NoJunk)

ApplyPowerSign(c) ==
  /\ req[c].family = "PowerSign"
  /\ VecStep(c, "PowerSign", NoJunk)

ApplyAdagradKernel(c, t) ==
  /\ req[c].family = "Adagrad"
  /\ KernelStep(c, t, "Adagrad")

ApplyAdagradV2Kernel(c, t) ==
  /\ req[c].family = "AdagradV2"
  /\ KernelStep(c, t, "AdagradV2")

ApplyAdadeltaKernel(c, t) ==
  /\ req[c].family = "Adadelta"
  /\ KernelStep(c, t, "Adadelta")

ApplyRMSPropKernel(c, t) ==
  /\ req[c].family = "RMSProp"
  /\ KernelStep(c, t, "RMSProp")

ApplyCenteredRMSPropKernel(c, t) ==
  /\ req[c].family = "CenteredRMSProp"
  /\ KernelStep(c, t, "CenteredRMSProp")

(***************************************************************************)
(* The caller: the arrays and scalars it hands to a call.                  *)
(***************************************************************************)
\* Gradient elements
GradVals == {T(-1), T(2)}

\* Gradient arrays of length n: a at the even indices, b at the odd ones
Grads(n) == {[k \in 1..n |-> IF k % 2 = 1 THEN a ELSE b] : a, b \in GradVals}

\* Hyperparameter settings: 1 is a usual one, 2 has epsilon = 0 and lr = 1
HyperSets == {1, 2}

Hyper(hp, p) ==
  CASE p = "lr" -> IF hp = 1 THEN Rat(1, 2) ELSE T(1)
    [] p = "epsilon" -> IF hp = 1 THEN T(1) ELSE T(0)
    [] p = "rho" -> Rat(1, 4)
    [] p = "momentum" -> T(2)
    [] p = "beta1" -> Rat(1, 3)
    [] p = "beta2" -> Rat(1, 2)
    [] p = "beta1_power" -> Rat(1, 3)
    [] p = "beta2_power" -> Rat(3, 4)
    [] p = "alpha" -> T(3)
    [] p = "sign_decay" -> Rat(1, 2)
    [] p = "beta" -> Rat(1, 4)
    [] p = "logbase" -> T(2)

\* Optimizer state: 0 is fresh (all slots zero), 1 is carried over from
\* earlier steps.  k is the 1-based position.
StateSets == {0, 1}

StateVal(st, x, k) ==
  IF x = "var" THEN T(k)
  ELSE IF st = 0 THEN T(0)
  ELSE CASE x = "accum" -> T(k)
         [] x = "accum_update" -> T(k + 1)
         [] x = "m" -> Rat(k, 2)
         [] x = "v" -> T(k)
         [] x = "vhat" -> T(k + 1)
         [] x = "ms" -> T(k + 2)
         [] x = "mg" -> T(1)
         [] x = "mom" -> T(k)

\* The buffers of a request for family fam with N = n
Buffers(fam, n, g, st, hp) ==
  [x \in Params(fam) |->
     IF x = "grad" THEN g
     ELSE IF x \in Scalars THEN <<Hyper(hp, x)>>
     ELSE [k \in 1..n |-> StateVal(st, x, k)]]

\* A request whose parameters are bound to buffers of their own names
Request(fam, flag) == [family |-> fam, flag |-> flag, bind |-> [x \in Params(fam) |-> x]]

\* No specialisation is being looked at: the calls are those of a real T
NoInst ==
  /\ build = [nvcc |-> FALSE, windows |-> FALSE]
  /\ ety = "float"
  /\ used = {}

\* No work count is being looked at on its own
NoDims ==
  /\ len = <<0, 0>>
  /\ work = <<>>

\* No complex primitive is being evaluated
NoComplex ==
  /\ elem = "double"
  /\ cx = <<T(0), T(0)>>
  /\ fn = "none"
  /\ root = <<>>

Flags(fam) == IF HasFlag(fam) THEN BOOLEAN ELSE {FALSE}

Init ==
  /\ backend \in {"ROCM", "CUDA"}
  /\ \E fam \in Families :
       \E flag \in Flags(fam), n \in 0..MaxN, st \in StateSets, hp \in HyperSets :
         \E g \in Grads(n) :
           /\ req = (1 :> Request(fam, flag))
           /\ mem = Buffers(fam, n, g, st, hp)
  /\ pre = mem
  /\ status = (1 :> "start")
  /\ pc = (1 :> 0)
  /\ cfg = (1 :> NoConfig)
  /\ thr = (1 :> <<>>)
  /\ launched = (1 :> 0)
  /\ run = 1
  /\ first = <<>>
  /\ NoComplex
  /\ NoInst
  /\ NoDims
  /\ applied = [c \in DOMAIN req |-> <<>>]

\* Every thread id some launch shape has
ThreadIds ==
  UNION {Threads(GetGpuLaunchConfig(0, bc, tpb)) : bc \in BlockCounts, tpb \in ThreadsPerBlock}

Next ==
  \E c \in {1} :
    \/ ApplyGradientDescent(c)
    \/ ApplyAdagrad(c)
    \/ ApplyAdagradV2(c)
    \/ ApplyAdadelta(c)
    \/ ApplyMomentum(c)
    \/ ApplyKerasMomentum(c)
    \/ ApplyAdam(c)
    \/ ApplyAdamWithAmsgrad(c)
    \/ ApplyAdaMax(c)
    \/ ApplyRMSProp(c)
    \/ ApplyCenteredRMSProp(c)
    \/ ApplyAddSign(c)
    \/ ApplyPowerSign(c)
    \/ \E t \in ThreadIds :
         \/ ApplyAdagradKernel(c, t)
         \/ ApplyAdagradV2Kernel(c, t)
         \/ ApplyAdadeltaKernel(c, t)
         \/ ApplyRMSPropKernel(c, t)
         \/ ApplyCenteredRMSPropKernel(c, t)

Spec == Init /\ [][Next]_vars

(***************************************************************************)
(* Two calls in flight at once.  Call 1 is an ApplyAdagrad, call 2 an      *)
(* ApplyRMSProp; they are given the same grad, lr and N, and call 2's var  *)
(* is an array of its own, var_b.  The hyperparameters are the usual ones. *)
(***************************************************************************)
ConcDims == {1, 2}

InitConc ==
  /\ backend \in {"ROCM", "CUDA"}
  /\ \E flag \in BOOLEAN, n \in ConcDims, st \in StateSets :
       \E g \in Grads(n), hp \in {1} :
         /\ req = (1 :> Request("Adagrad", flag)) @@
                  (2 :> [family |-> "RMSProp", flag |-> FALSE,
                         bind |-> [p \in Params("RMSProp") |-> IF p = "var" THEN "var_b" ELSE p]])
         /\ mem = [b \in Params("Adagrad") \cup Params("RMSProp") \cup {"var_b"} |->
                     IF b = "var_b" THEN [k \in 1..n |-> T(k + 3)]
                     ELSE IF b \in Params("Adagrad") THEN Buffers("Adagrad", n, g, st, hp)[b]
                     ELSE Buffers("RMSProp", n, g, st, hp)[b]]
  /\ pre = mem
  /\ status = (1 :> "start") @@ (2 :> "start")
  /\ pc = (1 :> 0) @@ (2 :> 0)
  /\ cfg = (1 :> NoConfig) @@ (2 :> NoConfig)
  /\ thr = (1 :> <<>>) @@ (2 :> <<>>)
  /\ launched = (1 :> 0) @@ (2 :> 0)
  /\ run = 1
  /\ first = <<>>
  /\ NoComplex
  /\ NoInst
  /\ NoDims
  /\ applied = [c \in DOMAIN req |-> <<>>]

NextConc ==
  \/ ApplyAdagrad(1)
  \/ ApplyRMSProp(2)
  \/ \E t \in ThreadIds :
       \/ ApplyAdagradKernel(1, t)
       \/ ApplyRMSPropKernel(2, t)

SpecConc == InitConc /\ [][NextConc]_vars

(***************************************************************************)
(* The same call made twice.  When the call is done the caller keeps the   *)
(* outcome, puts every buffer back to its pre-call contents and makes the  *)
(* call again.                                                             *)
(***************************************************************************)
Rerun(c) ==
  /\ run = 1
  /\ status[c] = "done"
  /\ first' = mem
  /\ mem' = pre
  /\ status' = [status EXCEPT ![c] = "start"]
  /\ pc' = [pc EXCEPT ![c] = 0]
  /\ cfg' = [cfg EXCEPT ![c] = NoConfig]
  /\ thr' = [thr EXCEPT ![c] = <<>>]
  /\ run' = 2
  /\ applied' = [applied EXCEPT ![c] = <<>>]
  /\ UNCHANGED <<backend, req, pre, launched, cplx, inst, dims>>

NextTwice ==
  \/ Next
  \/ Rerun(1)

SpecTwice == Init /\ [][NextTwice]_vars

(***************************************************************************)
(* The complex primitives applied to one argument.                         *)
(***************************************************************************)
\* std::complex<float> and std::complex<double>
ElemTypes == {"float", "double"}

\* Real and imaginary parts of the arguments
Parts == {T(k) : k \in (0 - MaxPart)..MaxPart}

InitSqrt ==
  /\ elem \in ElemTypes
  /\ cx \in Parts \X Parts
  /\ fn = "none"
  /\ root = <<>>
  /\ backend = "ROCM"
  /\ req = <<>>
  /\ mem = <<>>
  /\ pre = <<>>
  /\ status = <<>>
  /\ pc = <<>>
  /\ cfg = <<>>
  /\ thr = <<>>
  /\ launched = <<>>
  /\ run = 1
  /\ first = <<>>
  /\ NoInst
  /\ NoDims
  /\ applied = <<>>

\* root = impl_sqrt(cx)
ImplSqrt ==
  /\ fn = "none"
  /\ fn' = "impl_sqrt"
  /\ root' = impl_sqrt_complex(cx)
  /\ UNCHANGED <<backend, req, mem, pre, status, pc, cfg, thr, launched, run, first, elem, cx,
                 inst, dims, applied>>

\* root = impl_rsqrt(cx)
ImplRsqrt ==
  /\ fn = "none"
  /\ fn' = "impl_rsqrt"
  /\ root' = impl_rsqrt_complex(cx, elem)
  /\ UNCHANGED <<backend, req, mem, pre, status, pc, cfg, thr, launched, run, first, elem, cx,
                 inst, dims, applied>>

NextSqrt ==
  \/ ImplSqrt
  \/ ImplRsqrt

SpecSqrt == InitSqrt /\ [][NextSqrt]_vars

(***************************************************************************)
(* Whole-call results, composed from the statements above.                 *)
(***************************************************************************)
\* Every coefficient of lr and epsilon is the scalar itself
BcastJunk(mm, r) ==
  [i \in 1..(Dim(mm, r) - 1) |-> [p \in {"lr", "epsilon"} |-> Bcast(mm, r, p)]]

\* Statements s..VecLen of the functor's Eigen path, one after another
RECURSIVE VecFrom(_, _, _, _, _)
VecFrom(fam, s, mm, r, junk) ==
  IF s > VecLen(fam) THEN mm
  ELSE VecFrom(fam, s + 1, VecStmt(fam, s, mm, r, junk), r, junk)

\* Statements s..k of the kernel's loop body for index i, one after another
RECURSIVE BodyFrom(_, _, _, _, _, _, _)
BodyFrom(fam, s, k, mm, r, i, u) ==
  IF s > k THEN mm
  ELSE LET res == KernelBody(fam, s, mm, r, i, u)
       IN BodyFrom(fam, s + 1, k, res.mem, r, i, res.update)

\* The kernel's loop run by one thread over the indices i..N-1 in order
RECURSIVE LoopFrom(_, _, _, _)
LoopFrom(fam, i, mm, r) ==
  IF i >= Dim(mm, r) THEN mm
  ELSE LoopFrom(fam, i + 1, BodyFrom(fam, 1, KernelLen(fam), mm, r, i, T(0)), r)

\* The path a call of fam takes on the backend
OnLoopPath(fam) == backend = "ROCM" /\ HasKernel(fam)

(***************************************************************************)
(* Successive calls on the same state.  When every call in flight is done  *)
(* the caller supplies the next gradient and makes the calls again on the  *)
(* arrays as they are.                                                     *)
(***************************************************************************)
NextStep ==
  /\ run < MaxSteps
  /\ \A c \in DOMAIN req : status[c] = "done"
  /\ \E g \in Grads(Len(mem["grad"])) : mem' = [mem EXCEPT !["grad"] = g]
  /\ pre' = mem'
  /\ status' = [c \in DOMAIN req |-> "start"]
  /\ pc' = [c \in DOMAIN req |-> 0]
  /\ run' = run + 1
  /\ UNCHANGED <<backend, req, cfg, thr, launched, first, cplx, inst, dims, applied>>

(***************************************************************************)
(* ApplyMomentum (call 1, on var and accum) and ApplyKerasMomentum (call   *)
(* 2, on var_k and accum_k) side by side: same gradients, lr, momentum and *)
(* use_nesterov, the same var to start from, and accum_k = -lr * accum.    *)
(***************************************************************************)
InitPair ==
  /\ backend \in {"ROCM", "CUDA"}
  /\ \E flag \in BOOLEAN, n \in 1..MaxN, st \in StateSets, hp \in HyperSets :
       \E g \in Grads(n) :
         LET b == Buffers("Momentum", n, g, st, hp) IN
         /\ req = (1 :> Request("Momentum", flag)) @@
                  (2 :> [family |-> "KerasMomentum", flag |-> flag,
                         bind |-> [p \in Params("KerasMomentum") |->
                                     CASE p = "var" -> "var_k"
                                       [] p = "accum" -> "accum_k"
                                       [] OTHER -> p]])
         /\ mem = [x \in Params("Momentum") \cup {"var_k", "accum_k"} |->
                     CASE x = "var_k" -> b["var"]
                       [] x = "accum_k" ->
                            [k \in 1..n |-> Neg(Mul(b["lr"][1], b["accum"][k]))]
                       [] OTHER -> b[x]]
  /\ pre = mem
  /\ status = (1 :> "start") @@ (2 :> "start")
  /\ pc = (1 :> 0) @@ (2 :> 0)
  /\ cfg = (1 :> NoConfig) @@ (2 :> NoConfig)
  /\ thr = (1 :> <<>>) @@ (2 :> <<>>)
  /\ launched = (1 :> 0) @@ (2 :> 0)
  /\ run = 1
  /\ first = <<>>
  /\ NoComplex
  /\ NoInst
  /\ NoDims
  /\ applied = [c \in DOMAIN req |-> <<>>]

NextPair ==
  \/ ApplyMomentum(1)
  \/ ApplyKerasMomentum(2)
  \/ NextStep

SpecPair == InitPair /\ [][NextPair]_vars

(***************************************************************************)
(* ApplyAdamWithAmsgrad called step after step on the same m, v, vhat and  *)
(* var.                                                                    *)
(***************************************************************************)
InitAmsgrad ==
  /\ backend \in {"ROCM", "CUDA"}
  /\ \E n \in 1..MaxN, st \in StateSets, hp \in HyperSets :
       \E g \in Grads(n) :
         /\ req = (1 :> Request("AdamWithAmsgrad", FALSE))
         /\ mem = Buffers("AdamWithAmsgrad", n, g, st, hp)
  /\ pre = mem
  /\ status = (1 :> "start")
  /\ pc = (1 :> 0)
  /\ cfg = (1 :> NoConfig)
  /\ thr = (1 :> <<>>)
  /\ launched = (1 :> 0)
  /\ run = 1
  /\ first = <<>>
  /\ NoComplex
  /\ NoInst
  /\ NoDims
  /\ applied = (1 :> <<>>)

NextAmsgrad ==
  \/ ApplyAdamWithAmsgrad(1)
  \/ NextStep

SpecAmsgrad == InitAmsgrad /\ [][NextAmsgrad]_vars

(***************************************************************************)
(* The specialisations of the functors that the file instantiates, and the *)
(* square-root primitives a call of one evaluates.                         *)
(***************************************************************************)
ElementTypes == {"half", "float", "double", "complex64", "complex128"}

ComplexTypes == {"complex64", "complex128"}

\* The explicit instantiations with those of ApplyAdam for complex types not
\* excluded under TENSORFLOW_USE_ROCM
InstantiatedAdamComplexOnRocm(fam, ty, be, b) ==
  IF ty \notin ComplexTypes THEN TRUE
  ELSE IF fam \in {"GradientDescent", "Adagrad", "AdagradV2", "Adadelta", "RMSProp",
                   "CenteredRMSProp", "Adam"}
  THEN ~b.nvcc /\ ~b.windows
  ELSE IF fam \in {"Momentum", "KerasMomentum"}
  THEN ~b.nvcc /\ be # "ROCM" /\ ~b.windows
  ELSE FALSE

\* template struct functor::fam<GPUDevice, ty> is instantiated on backend be
\* in build b
Instantiated(fam, ty, be, b) ==
  IF ty \notin ComplexTypes THEN TRUE
  ELSE IF fam \in {"GradientDescent", "Adagrad", "AdagradV2", "Adadelta", "RMSProp",
                   "CenteredRMSProp"}
  THEN ~b.nvcc /\ ~b.windows
  ELSE IF fam \in {"Momentum", "KerasMomentum", "Adam"}
  THEN ~b.nvcc /\ be # "ROCM" /\ ~b.windows
  ELSE FALSE

\* The primitives called in the loop body of fam's kernel
KernelPrimitives(fam) ==
  CASE fam = "Adagrad" -> {"impl_rsqrt"}
    [] fam = "AdagradV2" -> {"impl_sqrt"}
    [] fam = "Adadelta" -> {"impl_sqrt", "impl_rsqrt"}
    [] fam = "RMSProp" -> {"impl_rsqrt"}
    [] fam = "CenteredRMSProp" -> {"impl_rsqrt"}
    [] OTHER -> {}

\* The Eigen square-root expressions in fam's whole-array statements
VecPrimitives(fam) ==
  CASE fam = "Adagrad" -> {"rsqrt()"}
    [] fam = "AdagradV2" -> {"sqrt()"}
    [] fam = "Adadelta" -> {"sqrt()", "rsqrt()"}
    [] fam \in {"Adam", "AdamWithAmsgrad", "RMSProp", "CenteredRMSProp"} -> {"sqrt()"}
    [] OTHER -> {}

InitInst ==
  /\ backend \in {"ROCM", "CUDA"}
  /\ build \in [nvcc : BOOLEAN, windows : BOOLEAN]
  /\ ety \in ElementTypes
  /\ used = {}
  /\ \E fam \in Families : req = (1 :> Request(fam, FALSE))
  /\ mem = <<>>
  /\ pre = <<>>
  /\ status = (1 :> "start")
  /\ pc = (1 :> 0)
  /\ cfg = (1 :> NoConfig)
  /\ thr = (1 :> <<>>)
  /\ launched = (1 :> 0)
  /\ run = 1
  /\ first = <<>>
  /\ NoComplex
  /\ NoDims
  /\ applied = (1 :> <<>>)

\* A call of an instantiated specialisation that takes the kernel branch
CallKernelPath ==
  /\ status[1] = "start"
  /\ Instantiated(req[1].family, ety, backend, build)
  /\ OnLoopPath(req[1].family)
  /\ used' = KernelPrimitives(req[1].family)
  /\ status' = [status EXCEPT ![1] = "done"]
  /\ UNCHANGED <<backend, req, mem, pre, pc, cfg, thr, launched, run, first, cplx,
                 build, ety, dims, applied>>

\* A call of an instantiated specialisation that takes the Eigen statements
CallEigenPath ==
  /\ status[1] = "start"
  /\ Instantiated(req[1].family, ety, backend, build)
  /\ ~OnLoopPath(req[1].family)
  /\ used' = VecPrimitives(req[1].family)
  /\ status' = [status EXCEPT ![1] = "done"]
  /\ UNCHANGED <<backend, req, mem, pre, pc, cfg, thr, launched, run, first, cplx,
                 build, ety, dims, applied>>

NextInst ==
  \/ CallKernelPath
  \/ CallEigenPath

SpecInst == InitInst /\ [][NextInst]_vars

(***************************************************************************)
(* The work count of a launch.  grad.dimension(0) is an index of the       *)
(* array type, 64 bits wide; a length is kept here as two limbs            *)
(* <<hi, lo>> of value hi * 65536 + lo, lo in 0..65535, so that lengths    *)
(* beyond 32 bits can be written down.                                     *)
(***************************************************************************)

\* Lengths of a gradient around the edges of the 32-bit range
Lengths ==
  {<<hi, lo>> : hi \in {0, 1, 32767, 32768, 65535, 65536, 65537},
                lo \in {0, 1, 2, 3, 5, 65534, 65535}}

\* int32 data_dim = grad.dimension(0): the low 32 bits of the index, read as
\* a two's complement number
ToInt32(l) ==
  LET h == l[1] % 65536
  IN (IF h >= 32768 THEN h - 65536 ELSE h) * 65536 + l[2]

\* The length a work count stands for, in limbs
IndexOf(n) == <<n \div 65536, n % 65536>>

InitCount ==
  /\ backend = "ROCM"
  /\ build = [nvcc |-> FALSE, windows |-> FALSE]
  /\ ety = "float"
  /\ used = {}
  /\ \E fam \in Families : HasKernel(fam) /\ req = (1 :> Request(fam, FALSE))
  /\ mem = <<>>
  /\ pre = <<>>
  /\ status = (1 :> "start")
  /\ pc = (1 :> 0)
  /\ cfg = (1 :> NoConfig)
  /\ thr = (1 :> <<>>)
  /\ launched = (1 :> 0)
  /\ run = 1
  /\ first = <<>>
  /\ NoComplex
  /\ len \in Lengths
  /\ work = <<>>
  /\ applied = (1 :> <<>>)

\* int32 data_dim = grad.dimension(0);
ComputeDataDim ==
  /\ status[1] = "start"
  /\ work = <<>>
  /\ work' = <<ToInt32(len)>>
  /\ UNCHANGED <<backend, req, mem, pre, status, pc, cfg, thr, launched, run, first,
                 cplx, inst, len, applied>>

\* auto config = GetGpuLaunchConfig(data_dim, d);
ConfigureLaunch ==
  /\ status[1] = "start"
  /\ work # <<>>
  /\ IF ValidWorkCount(work[1])
       THEN /\ \E bc \in BlockCounts, tpb \in ThreadsPerBlock :
                 cfg' = [cfg EXCEPT ![1] = GetGpuLaunchConfig(work[1], bc, tpb)]
            /\ status' = [status EXCEPT ![1] = "running"]
       ELSE /\ status' = [status EXCEPT ![1] = "fatal"]
            /\ UNCHANGED cfg
  /\ UNCHANGED <<backend, req, mem, pre, pc, thr, launched, run, first, cplx, inst,
                 dims, applied>>

NextCount ==
  \/ ComputeDataDim
  \/ ConfigureLaunch

SpecCount == InitCount /\ [][NextCount]_vars

(***************************************************************************)
(* Properties.                                                             *)
(***************************************************************************)
Done(c) == status[c] = "done"

\* C1: ApplyAdagrad and ApplyAdagradV2 with update_slots = false, on the
\* kernel path and on the Eigen path alike, never change an element of accum,
\* and when the call is done every var[i] is the pre-call var[i] less
\* lr * grad[i] * rsqrt(accum[i]) (Adagrad) or lr * grad[i] / (sqrt(accum[i]) + eps)
\* (AdagradV2), accum[i] being the pre-call value.
C1_FrozenSlotsStillUpdateVar ==
  \A c \in DOMAIN req :
    LET r == req[c] IN
    (r.family \in {"Adagrad", "AdagradV2"} /\ ~r.flag) =>
      /\ mem[r.bind["accum"]] = pre[r.bind["accum"]]
      /\ Done(c) =>
           \A i \in Indices(pre, r) :
             At(mem, r, "var", i) =
               IF r.family = "Adagrad"
               THEN Sub(At(pre, r, "var", i),
                        Mul(Mul(Bcast(pre, r, "lr"), At(pre, r, "grad", i)),
                            Rsqrt(At(pre, r, "accum", i))))
               ELSE Sub(At(pre, r, "var", i),
                        Mul(Bcast(pre, r, "lr"),
                            Div(At(pre, r, "grad", i),
                                Add(Sqrt(At(pre, r, "accum", i)),
                                    Bcast(pre, r, "epsilon")))))

\* A kernel-path Adagrad call with update_slots = false has finished on two
\* elements and has moved var.
C1_Witness ==
  /\ req[1].family = "Adagrad"
  /\ ~req[1].flag
  /\ backend = "ROCM"
  /\ Done(1)
  /\ Dim(mem, req[1]) = 2
  /\ \A i \in Indices(mem, req[1]) : At(mem, req[1], "var", i) # At(pre, req[1], "var", i)

\* The state arrays the families are said to update
StateUpdated(fam) ==
  CASE fam = "GradientDescent" -> {}
    [] fam \in {"Adagrad", "AdagradV2", "Momentum", "KerasMomentum"} -> {"accum"}
    [] fam = "Adadelta" -> {"accum", "accum_update"}
    [] fam \in {"Adam", "AdaMax"} -> {"m", "v"}
    [] fam = "AdamWithAmsgrad" -> {"m", "v", "vhat"}
    [] fam = "RMSProp" -> {"ms", "mom"}
    [] fam = "CenteredRMSProp" -> {"mg", "ms", "mom"}
    [] fam \in {"AddSign", "PowerSign"} -> {"m"}

\* The buffers call c may write: its var and its family's state arrays
Mutated(c) == {req[c].bind[x] : x \in StateUpdated(req[c].family) \cup {"var"}}

\* C2: at every point of a call, the gradient array, every scalar
\* hyperparameter and every other buffer that is not the call's var or one of
\* its family's state arrays holds what it held before the call.
C2_OnlyVarAndStateChange ==
  \A b \in DOMAIN mem :
    (b \notin UNION {Mutated(c) : c \in DOMAIN req}) => mem[b] = pre[b]

\* A finished Adadelta call has changed var, accum and accum_update.
C2_Witness ==
  /\ req[1].family = "Adadelta"
  /\ Done(1)
  /\ Dim(mem, req[1]) >= 1
  /\ \A x \in {"var", "accum", "accum_update"} : mem[x] # pre[x]

\* C3: in every family every scalar hyperparameter is broadcast: the finished
\* call leaves what it leaves when the value used for a scalar at every index
\* is the one stored at its position 0 (for ApplyAdaMax: lr and epsilon in
\* var[i] -= (lr / (1 - beta1_power)) * m[i] / (v[i] + epsilon)).
C3_ScalarsAreBroadcast ==
  \A c \in DOMAIN req :
    (Done(c) /\ ~OnLoopPath(req[c].family)) =>
      mem = VecFrom(req[c].family, 1, pre, req[c], BcastJunk(pre, req[c]))

\* C4: for Adagrad, AdagradV2, Adadelta, RMSProp and CenteredRMSProp a finished
\* call, whichever path it ran on, leaves the arrays that the kernel loop
\* leaves (all statements per index) and that the Eigen statements leave (one
\* whole-array assignment after another) from the same pre-call state.
C4_KernelAndEigenPathsAgree ==
  \A c \in DOMAIN req :
    (Done(c) /\ HasKernel(req[c].family)) =>
      /\ mem = LoopFrom(req[c].family, 0, pre, req[c])
      /\ mem = VecFrom(req[c].family, 1, pre, req[c], NoJunk)

\* A kernel-path Adadelta call has finished on two elements and changed them.
C4_Witness ==
  /\ req[1].family = "Adadelta"
  /\ backend = "ROCM"
  /\ Done(1)
  /\ Dim(mem, req[1]) = 2
  /\ mem["accum_update"] # pre["accum_update"]
  /\ mem["var"] # pre["var"]

\* C5: a call with N = 0 is rejected or does nothing: it requests no kernel
\* launch, changes no buffer and does not end in the fatal state, on the kernel
\* path as on the Eigen path.
C5_EmptyCallIsNoOp ==
  \A c \in DOMAIN req :
    Dim(pre, req[c]) = 0 =>
      /\ status[c] # "fatal"
      /\ launched[c] = 0
      /\ mem = pre

\* C6: a call ends in one of two ways: every element of var and of the
\* family's state arrays carries the rule's new value, or no element of any
\* buffer has changed; a failed launch ends in the fatal state with nothing
\* changed.
C6_AllOrNothing ==
  \A c \in DOMAIN req :
    status[c] \in {"done", "fatal"} =>
      /\ status[c] = "fatal" => mem = pre
      /\ \/ mem = pre
         \/ mem = VecFrom(req[c].family, 1, pre, req[c], BcastJunk(pre, req[c]))

\* Statements of the loop body that call c's kernel has executed for index i:
\* index i belongs to thread i mod (gridDim.x * blockDim.x)
Executed(c, i) ==
  LET th == thr[c][i % (cfg[c].block_count * cfg[c].thread_per_block)]
  IN IF th.i < 0 \/ th.i > i THEN KernelLen(req[c].family)
     ELSE IF th.i = i THEN th.s - 1
     ELSE 0

CallResult(c, mm) ==
  IF OnLoopPath(req[c].family)
  THEN LoopFrom(req[c].family, 0, mm, req[c])
  ELSE VecFrom(req[c].family, 1, mm, req[c], NoJunk)

\* C8: two calls in flight at once that share grad and lr and mutate disjoint
\* sets of arrays leave, when both are done, the memory that the two calls
\* leave when run one after the other, in either order.
C8_ConcurrentCallsCompose ==
  (/\ DOMAIN req = {1, 2}
   /\ Mutated(1) \cap Mutated(2) = {}
   /\ Done(1)
   /\ Done(2)) =>
    /\ mem = CallResult(2, CallResult(1, pre))
    /\ mem = CallResult(1, CallResult(2, pre))

\* Both calls have finished on two elements after sharing grad and lr, their
\* mutated arrays are disjoint, and each has changed its own var.
C8_Witness ==
  /\ DOMAIN req = {1, 2}
  /\ req[1].bind["grad"] = req[2].bind["grad"]
  /\ req[1].bind["lr"] = req[2].bind["lr"]
  /\ Mutated(1) \cap Mutated(2) = {}
  /\ Done(1)
  /\ Done(2)
  /\ Dim(mem, req[1]) = 2
  /\ mem["var"] # pre["var"]
  /\ mem["var_b"] # pre["var_b"]

\* C9: the same call made again from the same pre-call contents, on the same
\* backend, ends with every buffer holding what the first call left in it.
C9_SameInputsSameOutputs ==
  (run = 2 /\ Done(1)) => mem = first

\* The sign of a value: -1, 0 or 1
SignOf(a) == IF Less(a, T(0)) THEN -1 ELSE IF Less(T(0), a) THEN 1 ELSE 0

C11_ComplexOnRocmUsesImpl ==
  (backend = "ROCM" /\ ety \in ComplexTypes /\ DOMAIN req = {1} /\ Done(1)) =>
    /\ used \subseteq {"impl_sqrt", "impl_rsqrt"}
    /\ (VecPrimitives(req[1].family) # {} \/ KernelPrimitives(req[1].family) # {}) =>
         /\ OnLoopPath(req[1].family)
         /\ used # {}

\* An ApplyAdadelta<GPUDevice, complex64> call on ROCm has evaluated impl_sqrt
\* and impl_rsqrt.
C11_Witness ==
  /\ backend = "ROCM"
  /\ ety = "complex64"
  /\ req[1].family = "Adadelta"
  /\ Done(1)
  /\ used = {"impl_sqrt", "impl_rsqrt"}

\* The steps of ApplyAdadelta that have taken effect at index i of call c:
\* 0 none, 1 accum, 2 accum and var, 3 accum, var and accum_update
AdadeltaStage(c, i) ==
  IF status[c] \in {"start", "fatal"} THEN 0
  ELSE IF OnLoopPath("Adadelta")
  THEN LET e == Executed(c, i) IN IF e = 0 THEN 0 ELSE IF e < 3 THEN 1 ELSE e - 1
  ELSE pc[c]

\* C12: in ApplyAdadelta, at every point of a call and for every index i,
\* accum[i] is the first to change, to accum[i]*rho + grad[i]^2*(1-rho); var[i]
\* changes next, by upd*lr with upd formed from the new accum[i] and the
\* pre-call accum_update[i]; accum_update[i] changes last, to
\* accum_update[i]*rho + upd^2*(1-rho) with that same upd.
C12_AdadeltaStepOrder ==
  \A c \in DOMAIN req :
    LET r == req[c] IN
    (r.family = "Adadelta" /\ mem # <<>>) =>
      \A i \in Indices(pre, r) :
        LET rho == Bcast(pre, r, "rho")
            eps == Bcast(pre, r, "epsilon")
            g == At(pre, r, "grad", i)
            acc == Add(Mul(At(pre, r, "accum", i), rho), Mul(Mul(g, g), Sub(T(1), rho)))
            upd == Mul(Mul(Sqrt(Add(At(pre, r, "accum_update", i), eps)), g),
                       Rsqrt(Add(acc, eps)))
            stage == AdadeltaStage(c, i)
        IN /\ At(mem, r, "accum", i) = IF stage >= 1 THEN acc ELSE At(pre, r, "accum", i)
           /\ At(mem, r, "var", i) =
                IF stage >= 2
                THEN Sub(At(pre, r, "var", i), Mul(upd, Bcast(pre, r, "lr")))
                ELSE At(pre, r, "var", i)
           /\ At(mem, r, "accum_update", i) =
                IF stage >= 3
                THEN Add(Mul(At(pre, r, "accum_update", i), rho),
                         Mul(Mul(upd, upd), Sub(T(1), rho)))
                ELSE At(pre, r, "accum_update", i)

\* An ApplyAdadelta call that carries state from earlier steps has finished
\* on two elements and has changed accum_update.
C12_Witness ==
  /\ req[1].family = "Adadelta"
  /\ mem # <<>>
  /\ Dim(mem, req[1]) = 2
  /\ pre["accum_update"] # <<T(0), T(0)>>
  /\ Done(1)
  /\ mem["accum_update"] # pre["accum_update"]

\* C13: whenever an ApplyMomentum call and an ApplyKerasMomentum call that
\* started from the same var and from accum_k = -lr * accum have both been
\* made the same number of times with the same gradients, lr, momentum and
\* use_nesterov, the two var arrays are equal and accum_k = -lr * accum.
C13_KerasMomentumTracksMomentum ==
  (/\ DOMAIN req = {1, 2}
   /\ req[1].family = "Momentum"
   /\ req[2].family = "KerasMomentum"
   /\ Done(1)
   /\ Done(2)) =>
    /\ mem["var_k"] = mem["var"]
    /\ \A i \in Indices(mem, req[1]) :
         At(mem, req[2], "accum", i) =
           Neg(Mul(Bcast(mem, req[1], "lr"), At(mem, req[1], "accum", i)))

\* Both calls have been made MaxSteps times with use_nesterov = true on two
\* elements, from a non-zero accumulator, and var has moved in the last one.
C13_Witness ==
  /\ DOMAIN req = {1, 2}
  /\ req[1].family = "Momentum"
  /\ req[1].flag
  /\ run = MaxSteps
  /\ Done(1)
  /\ Done(2)
  /\ Dim(mem, req[1]) = 2
  /\ mem["accum"] # <<T(0), T(0)>>
  /\ mem["var"] # pre["var"]

C15_EachIndexOnce ==
  \A c \in DOMAIN req :
    OnLoopPath(req[c].family) =>
      LET N == Dim(mem, req[c]) IN
      /\ DOMAIN applied[c] \subseteq 0..(N - 1)
      /\ \A i \in DOMAIN applied[c] : applied[c][i] = 1
      /\ Done(c) => DOMAIN applied[c] = 0..(N - 1)

\* A finished loop-path call whose launch had fewer threads than indices
C15_StrideWitness ==
  \E c \in DOMAIN req :
    /\ OnLoopPath(req[c].family)
    /\ Done(c)
    /\ Dim(mem, req[c]) = 2
    /\ cfg[c].block_count * cfg[c].thread_per_block = 1
    /\ applied[c] = [i \in 0..1 |-> 1]

\* C15, second part: the work count handed to the launch, a signed 32-bit
\* integer, equals the length of the gradient for every length the array
\* type allows.
C15_WorkCountIsLength ==
  work # <<>> => (work[1] >= 0 /\ IndexOf(work[1]) = len)

====
